---- MODULE Spec2Model ----
(***************************************************************************)
(* Model of go-message-channel: a Channel wraps a Go channel, one consumer  *)
(* goroutine and a registry (ChildrenMap) of child Channels whose messages  *)
(* are forwarded into the parent.  The repository holds three revisions of  *)
(* the code; `rev` selects the pair of files a behaviour runs:              *)
(*   "sync_map"  message.go        + sync_map.go  (registry never built)    *)
(*   "part_001"  message.go        + unnamed/part_001                       *)
(*   "part_000"  unnamed/part_002  + unnamed/part_000 (context-aware API)   *)
(***************************************************************************)
EXTENDS Integers, Sequences, FiniteSets, TLC

\* ------------------------------------------------------------------ bounds
\* Channels of a run of Spec (a root and its children).
MaxChannels == 2

\* Channels of a run of SpecFanIn (a root with several descendants).
MaxFanIn == 3

\* Send calls of a run, over all Channels.
MaxSends == 3

MaxBuffSize == 2

\* Tasks that call the methods of one ChildrenMap directly (SpecRegistry).
MaxTasks == 2

\* Direct ChildrenMap calls of a run, over all tasks.
MaxOps == 3

TaskIDs == 1..MaxTasks

ChannelIDs == 1..MaxFanIn

Revisions == {"sync_map", "part_001", "part_000"}

\* The file that defines Channel in a revision.
ChannelFile(r) == IF r = "part_000" THEN "part_002" ELSE "message.go"

NoMessage == <<0, 0>>

\* The k-th message handed to Send on channel c.
Message(c, k) == <<c, k>>

VARIABLES
  rev,                 \* which revision of the files runs
  idGenerator,         \* the process-wide atomic counter
  options,             \* per Channel: ChannelOptions (and what its closures capture)
  channel,             \* per Channel: the buffered contents of the Go channel
  closed,              \* per Channel: close(x.channel) has run
  childrenChannelMap,  \* per Channel: the key set of ChildrenMap.channelMap
  selfWorkerWg,        \* per Channel: the WaitGroup counter
  worker,              \* per Channel: the consumer goroutine
  caller,              \* per Channel: the task that calls Send and SenderWaitAndClose
  receiver,            \* the task that calls ReceiverWait, and on which Channel
  panicked,            \* "none", or the run-time panic that ended the process
  results,             \* per Channel: what each finished Send returned
  enqueued,            \* per Channel: every message ever put into the Go channel
  calls,               \* per Channel: the finished ChannelConsumerFunc invocations
  listenerCalls,       \* per Channel: number of CloseEventListener invocations
  born,                \* per Channel: "root", "early" or "late" (made during the parent's close)
  ID,                  \* per Channel: the ID field
  lock,                \* ChildrenMap.lock of the map under direct calls: 0, or its holder
  task,                \* per task that calls the methods of that ChildrenMap: its call
  history              \* the finished direct calls on that ChildrenMap, in Unlock order

\* The state of the direct callers of the root's ChildrenMap.
registryVars == <<lock, task, history>>

vars == <<rev, idGenerator, options, channel, closed, childrenChannelMap,
          selfWorkerWg, worker, caller, receiver, panicked, results, enqueued,
          calls, listenerCalls, born, ID, lock, task, history>>

Exists(c) == c <= idGenerator

\* ------------------------------------------------------- ChannelOptions
NoOptions ==
  [ChannelConsumerFunc |-> "nil", CloseEventListener |-> "nil",
   ChannelBuffSize |-> 0, parent |-> 0]

\* The options a host application passes to NewChannel for the root Channel:
\* a recording callback with a close listener, or neither, and any buffer size.
RootOptions ==
  [ChannelConsumerFunc : {"record"}, CloseEventListener : {"user"},
   ChannelBuffSize : 0..MaxBuffSize, parent : {0}]
  \cup
  [ChannelConsumerFunc : {"nil"}, CloseEventListener : {"nil"},
   ChannelBuffSize : 0..MaxBuffSize, parent : {0}]

\* The options MakeChildChannel builds for a child of p.
ChildOptions(p) ==
  [ChannelConsumerFunc |-> "forward", CloseEventListener |-> "remove",
   ChannelBuffSize |-> options[p].ChannelBuffSize, parent |-> p]

\* ------------------------------------------------------- consumer loop
\* `count := 0` (part_002) or `count := 1` (message.go) before the range loop.
InitialCount(file) == IF file = "part_002" THEN 0 ELSE 1

\* `count++` at the head of the loop body; message.go never increments.
NextCount(file, n) == IF file = "part_002" THEN n + 1 ELSE n

NewWorker(file) ==
  [pc |-> "range", count |-> InitialCount(file), message |-> NoMessage, step |-> 0]

NoWorker == [pc |-> "none", count |-> 0, message |-> NoMessage, step |-> 0]

\* The consumer of c has received m from the Go channel: it counts and, when a
\* ChannelConsumerFunc is set, goes on to call it.
Take(c, m) ==
  LET n == NextCount(ChannelFile(rev), worker[c].count)
  IN  IF options[c].ChannelConsumerFunc = "nil"
      THEN [worker[c] EXCEPT !.pc = "range", !.count = n, !.message = NoMessage]
      ELSE [worker[c] EXCEPT !.pc = "call", !.count = n, !.message = m]

\* (mutant) the listener is called before Done().
DeferredListenerFirst == <<"CloseEventListener", "Done">>

\* The deferred function of the consumer goroutine, in program order.
DeferredSteps == <<"Done", "CloseEventListener">>

\* ------------------------------------------------------- the Go channel
\* (mutant) the buffer is treated as a stack.
EnqueueFront(q, m) == <<m>> \o q

\* A buffered send appends at the tail of the buffer.
Enqueue(q, m) == Append(q, m)

\* (mutant) a send never finds the buffer full.
HasRoomAlways(p) == TRUE

\* The buffer of `make(chan Message, options.ChannelBuffSize)` is not full.
HasRoom(p) == Len(channel[p]) < options[p].ChannelBuffSize

\* A receiver parked on an empty channel takes a sent value directly; with
\* ChannelBuffSize = 0 this is the only way a send completes.
ReceiverParked(p) == worker[p].pc = "range" /\ channel[p] = <<>>

\* `x.channel <- message` can complete now.
CanSend(p) == ~closed[p] /\ (HasRoom(p) \/ ReceiverParked(p))

ChannelAfterSend(p, m) == IF HasRoom(p) THEN Enqueue(channel[p], m) ELSE channel[p]

WorkerAfterSend(p, m) == IF HasRoom(p) THEN worker[p] ELSE Take(p, m)

\* ------------------------------------------------------- ChildrenMap
\* sync_map.go: NewChildrenMap returns &ChildrenMap{} with a nil lock, so
\* x.lock.Lock() in Run dereferences nil.
LockIsNil(r) == r = "sync_map"

\* (mutant) the counter is read but not advanced.
AddStuck(v, delta) == v

\* atomic.Uint64.Add: one indivisible step that returns the new value (the
\* counter would wrap at 2^64, far beyond any run here).
Add(v, delta) == v + delta

\* Set's closure `f[id] = childChannel`, on the key set of the map.
Set(m, id) == m \cup {id}

\* (mutant) Remove clears the map.
RemoveAll(m, id) == {}

\* Remove's closure `delete(f, id)`.
Remove(m, id) == m \ {id}

\* BlockUtilEmpty's closure: the flag is cleared when the map is empty and is
\* never set anywhere.
FlagAfterRun(m, isMapNotEmpty) == IF m = {} THEN FALSE ELSE isMapNotEmpty

\* `if !isMapNotEmpty { break }`, else sleep and run again.
AfterObservation(isMapNotEmpty) == IF ~isMapNotEmpty THEN "close" ELSE "BlockUtilEmpty"

\* (mutant) both cases of the select return nil.
SendResultAlwaysNil(case) == "nil"

\* What Send returns from the case of its select that fired.
SendResult(case) == IF case = "send" THEN "nil" ELSE "Canceled"

\* What ctx a caller may pass to Send: message.go's Send takes none.
CtxStates(file) == IF file = "part_002" THEN BOOLEAN ELSE {FALSE}

\* `x.selfWorkerWg.Wait()` returns.
WaitReturns(c) == selfWorkerWg[c] = 0

\* ReceiverWait after Wait(): part_002 goes on to `select {}`.
AfterWait(file) == IF file = "part_002" THEN "select" ELSE "returned"

\* What a caller of SenderWaitAndClose found on entry (kept for the record
\* only, the program does not read it): the children registered and whether
\* the parent's queue was closed.
NoSnapshot == [children |-> {}, parentClosed |-> FALSE]

\* doneAtCall is kept for the record only: whether ctx was done when the
\* pending Send was called.
NewCaller ==
  [pc |-> "idle", ctxDone |-> FALSE, doneAtCall |-> FALSE,
   isMapNotEmpty |-> FALSE, err |-> "nil", atCall |-> NoSnapshot]

\* A task that is in no ChildrenMap call.
NoTask ==
  [pc |-> "idle", op |-> "none", id |-> 0, expired |-> FALSE, m |-> {}, size |-> 0]

\* ------------------------------------------------------- Init
Init ==
  /\ rev \in Revisions
  /\ idGenerator = 1
  /\ \E o \in RootOptions :
       options = [c \in ChannelIDs |-> IF c = 1 THEN o ELSE NoOptions]
  /\ channel = [c \in ChannelIDs |-> <<>>]
  /\ closed = [c \in ChannelIDs |-> FALSE]
  /\ childrenChannelMap = [c \in ChannelIDs |-> {}]
  /\ selfWorkerWg = [c \in ChannelIDs |-> IF c = 1 THEN 1 ELSE 0]
  /\ worker = [c \in ChannelIDs |->
                 IF c = 1 THEN NewWorker(ChannelFile(rev)) ELSE NoWorker]
  /\ caller = [c \in ChannelIDs |-> NewCaller]
  /\ receiver = [pc |-> "idle", on |-> 0]
  /\ panicked = "none"
  /\ results = [c \in ChannelIDs |-> <<>>]
  /\ enqueued = [c \in ChannelIDs |-> <<>>]
  /\ calls = [c \in ChannelIDs |-> <<>>]
  /\ listenerCalls = [c \in ChannelIDs |-> 0]
  /\ born = [c \in ChannelIDs |-> IF c = 1 THEN "root" ELSE "none"]
  /\ ID = [c \in ChannelIDs |-> IF c = 1 THEN idGenerator ELSE 0]
  /\ lock = 0
  /\ task = [t \in TaskIDs |-> NoTask]
  /\ history = <<>>

Running(c) == Exists(c) /\ panicked = "none"

Panic(what) ==
  /\ panicked' = what
  /\ UNCHANGED <<registryVars, ID, rev, idGenerator, options, channel, closed, childrenChannelMap,
                 selfWorkerWg, worker, caller, receiver, results, enqueued,
                 calls, listenerCalls, born>>

\* ------------------------------------------------------- Channel.Send
\* Send calls entered so far, over all Channels.
RECURSIVE SendsUpTo(_)
SendsUpTo(n) ==
  IF n = 0 THEN 0
  ELSE SendsUpTo(n - 1) + Len(results[n]) + (IF caller[n].pc = "Send" THEN 1 ELSE 0)

SendsStarted == SendsUpTo(MaxFanIn)


\* A caller enters Send with the next message; d says whether its ctx is
\* already done.
SendCall(c) ==
  /\ Running(c)
  /\ caller[c].pc = "idle"
  /\ SendsStarted < MaxSends
  /\ \E d \in CtxStates(ChannelFile(rev)) :
       caller' = [caller EXCEPT ![c].pc = "Send", ![c].ctxDone = d,
                                ![c].doneAtCall = d]
  /\ UNCHANGED <<registryVars, ID, rev, idGenerator, options, channel, closed, childrenChannelMap,
                 selfWorkerWg, worker, receiver, panicked, results, enqueued,
                 calls, listenerCalls, born>>

\* The caller's ctx is cancelled, or its deadline passes, while Send waits.
CtxCancel(c) ==
  /\ Running(c)
  /\ caller[c].pc = "Send"
  /\ TRUE \in CtxStates(ChannelFile(rev))
  /\ ~caller[c].ctxDone
  /\ caller' = [caller EXCEPT ![c].ctxDone = TRUE]
  /\ UNCHANGED <<registryVars, ID, rev, idGenerator, options, channel, closed, childrenChannelMap,
                 selfWorkerWg, worker, receiver, panicked, results, enqueued,
                 calls, listenerCalls, born>>

\* `case x.channel <- message: return nil` (a send on a closed channel panics).
SendEnqueue(c) ==
  /\ Running(c)
  /\ caller[c].pc = "Send"
  /\ LET m == Message(c, Len(results[c]) + 1)
     IN  IF closed[c]
         THEN Panic("send on closed channel")
         ELSE /\ CanSend(c)
              /\ channel' = [channel EXCEPT ![c] = ChannelAfterSend(c, m)]
              /\ worker' = [worker EXCEPT ![c] = WorkerAfterSend(c, m)]
              /\ enqueued' = [enqueued EXCEPT ![c] = Append(@, m)]
              /\ results' = [results EXCEPT ![c] = Append(@, SendResult("send"))]
              /\ caller' = [caller EXCEPT ![c].pc = "idle", ![c].ctxDone = FALSE,
                                          ![c].doneAtCall = FALSE]
              /\ UNCHANGED <<registryVars, ID, rev, idGenerator, options, closed, childrenChannelMap,
                             selfWorkerWg, receiver, panicked, calls,
                             listenerCalls, born>>

\* `case <-ctx.Done(): return context.Canceled`.
SendCanceled(c) ==
  /\ Running(c)
  /\ caller[c].pc = "Send"
  /\ caller[c].ctxDone
  /\ results' = [results EXCEPT ![c] = Append(@, SendResult("done"))]
  /\ caller' = [caller EXCEPT ![c].pc = "idle", ![c].ctxDone = FALSE,
                                     ![c].doneAtCall = FALSE]
  /\ UNCHANGED <<registryVars, ID, rev, idGenerator, options, channel, closed, childrenChannelMap,
                 selfWorkerWg, worker, receiver, panicked, enqueued, calls,
                 listenerCalls, born>>

\* ------------------------------------------------------- consumer goroutine
\* `for message := range x.channel`: the next buffered message is received.
WorkerReceive(c) ==
  /\ Running(c)
  /\ worker[c].pc = "range"
  /\ channel[c] # <<>>
  /\ worker' = [worker EXCEPT ![c] = Take(c, Head(channel[c]))]
  /\ channel' = [channel EXCEPT ![c] = Tail(@)]
  /\ UNCHANGED <<registryVars, ID, rev, idGenerator, options, closed, childrenChannelMap,
                 selfWorkerWg, caller, receiver, panicked, results, enqueued,
                 calls, listenerCalls, born>>

\* The host's ChannelConsumerFunc(count, message) runs and returns.
ConsumerRecord(c) ==
  /\ Running(c)
  /\ worker[c].pc = "call"
  /\ options[c].ChannelConsumerFunc = "record"
  /\ calls' = [calls EXCEPT ![c] = Append(@, <<worker[c].count, worker[c].message>>)]
  /\ worker' = [worker EXCEPT ![c].pc = "range", ![c].message = NoMessage]
  /\ UNCHANGED <<registryVars, ID, rev, idGenerator, options, channel, closed, childrenChannelMap,
                 selfWorkerWg, caller, receiver, panicked, results, enqueued,
                 listenerCalls, born>>

\* A child's ChannelConsumerFunc: `x.channel <- message` on the parent's
\* channel. On a closed channel the send panics: the goroutine leaves the
\* callback and the loop and runs its deferred function, with the message it
\* could not forward still in hand, and the process dies when that is done.
ConsumerForward(c) ==
  /\ Running(c)
  /\ worker[c].pc = "call"
  /\ options[c].ChannelConsumerFunc = "forward"
  /\ LET p == options[c].parent
         m == worker[c].message
     IN  IF closed[p]
         THEN /\ worker' = [worker EXCEPT ![c].pc = "deferred"]
              /\ UNCHANGED <<registryVars, ID, rev, idGenerator, options, channel,
                             closed, childrenChannelMap, selfWorkerWg, caller,
                             receiver, panicked, results, enqueued, calls,
                             listenerCalls, born>>
         ELSE /\ CanSend(p)
              /\ channel' = [channel EXCEPT ![p] = ChannelAfterSend(p, m)]
              /\ worker' = [worker EXCEPT
                              ![p] = WorkerAfterSend(p, m),
                              ![c] = [worker[c] EXCEPT !.pc = "range",
                                                       !.message = NoMessage]]
              /\ enqueued' = [enqueued EXCEPT ![p] = Append(@, m)]
              /\ calls' = [calls EXCEPT ![c] = Append(@, <<worker[c].count, m>>)]
              /\ UNCHANGED <<registryVars, ID, rev, idGenerator, options, closed, childrenChannelMap,
                             selfWorkerWg, caller, receiver, panicked, results,
                             listenerCalls, born>>

\* The deferred function has run up to and including statement i: with no
\* CloseEventListener set the goroutine is finished after Done().
DeferredFinished(c, i) ==
  \/ i = Len(DeferredSteps)
  \/ \A j \in (i + 1)..Len(DeferredSteps) :
       DeferredSteps[j] = "CloseEventListener" /\ options[c].CloseEventListener = "nil"

\* The goroutine is about to run statement worker[c].step + 1 of the deferred
\* function: the range loop has ended (closed and drained) or a statement is done.
AtDeferred(c) ==
  \/ worker[c].pc = "range" /\ channel[c] = <<>> /\ closed[c]
  \/ worker[c].pc = "deferred"

\* The goroutine runs its deferred function because its callback panicked.
Unwinding(c) == worker[c].pc = "deferred" /\ worker[c].message # NoMessage

\* One statement of the deferred function: selfWorkerWg.Done(), or the
\* CloseEventListener when one is set (a child's removes it from the parent's
\* map). After the last statement of an unwinding goroutine the panic ends the
\* process.
WorkerDeferred(c) ==
  /\ Running(c)
  /\ AtDeferred(c)
  /\ LET i == worker[c].step + 1
         s == DeferredSteps[i]
         listener == options[c].CloseEventListener
         p == options[c].parent
     IN  IF s = "CloseEventListener" /\ listener = "remove" /\ LockIsNil(rev)
         THEN Panic("nil pointer dereference")
         ELSE /\ worker' = [worker EXCEPT
                              ![c].pc = IF DeferredFinished(c, i) THEN "exited"
                                                                  ELSE "deferred",
                              ![c].step = i]
              /\ selfWorkerWg' = IF s = "Done"
                                 THEN [selfWorkerWg EXCEPT ![c] = @ - 1]
                                 ELSE selfWorkerWg
              /\ listenerCalls' = IF s = "CloseEventListener" /\ listener # "nil"
                                  THEN [listenerCalls EXCEPT ![c] = @ + 1]
                                  ELSE listenerCalls
              /\ childrenChannelMap' =
                   IF s = "CloseEventListener" /\ listener = "remove"
                   THEN [childrenChannelMap EXCEPT ![p] = Remove(@, ID[c])]
                   ELSE childrenChannelMap
              /\ panicked' = IF Unwinding(c) /\ DeferredFinished(c, i)
                             THEN "send on closed channel"
                             ELSE panicked
              /\ UNCHANGED <<registryVars, ID, rev, idGenerator, options, channel,
                             closed, caller, receiver, results, enqueued, calls,
                             born>>

\* ------------------------------------------------------- SenderWaitAndClose
\* The callbacks a caller may hand to SenderWaitAndClose; only part_000's
\* MapRunFunc can report an error.
DrainFuncs(file) == IF file = "part_002" THEN {"nil", "ok", "err"} ELSE {"nil", "ok"}

\* SenderWaitAndClose up to the end of one pass of BlockUtilEmpty's loop. On
\* entry (pc "idle") the flag starts as `isMapNotEmpty := false`; a pass Runs
\* the closure under the lock, returns an error of f at once, and else breaks
\* or sleeps on isMapNotEmpty. atCall remembers what was seen on entry.
BlockUtilEmpty(c) ==
  /\ Running(c)
  /\ caller[c].pc \in {"idle", "BlockUtilEmpty"}
  /\ IF LockIsNil(rev)
     THEN Panic("nil pointer dereference")
     ELSE /\ \E f \in DrainFuncs(ChannelFile(rev)) :
               LET m == childrenChannelMap[c]
                   entry == caller[c].pc = "idle"
                   flag == FlagAfterRun(m, IF entry THEN FALSE
                                                    ELSE caller[c].isMapNotEmpty)
                   failed == m # {} /\ f = "err"
               IN  caller' = [caller EXCEPT
                                ![c].isMapNotEmpty = flag,
                                ![c].err = IF failed THEN "err" ELSE "nil",
                                ![c].atCall =
                                  IF entry
                                  THEN [children |-> m,
                                        parentClosed |->
                                          /\ options[c].parent # 0
                                          /\ closed[options[c].parent]]
                                  ELSE @,
                                ![c].pc = IF failed THEN "close"
                                          ELSE AfterObservation(flag)]
          /\ UNCHANGED <<registryVars, ID, rev, idGenerator, options, channel, closed,
                         childrenChannelMap, selfWorkerWg, worker, receiver,
                         panicked, results, enqueued, calls, listenerCalls, born>>

\* `if err != nil { // TODO }`: the error is dropped, then `close(x.channel)`
\* (closing a closed channel panics).
CloseChannel(c) ==
  /\ Running(c)
  /\ caller[c].pc = "close"
  /\ IF closed[c]
     THEN Panic("close of closed channel")
     ELSE /\ closed' = [closed EXCEPT ![c] = TRUE]
          /\ caller' = [caller EXCEPT ![c].pc = "Wait", ![c].err = "nil"]
          /\ UNCHANGED <<registryVars, ID, rev, idGenerator, options, channel, childrenChannelMap,
                         selfWorkerWg, worker, receiver, panicked, results,
                         enqueued, calls, listenerCalls, born>>

\* `x.selfWorkerWg.Wait()` returns and so does SenderWaitAndClose.
SenderWaitReturn(c) ==
  /\ Running(c)
  /\ caller[c].pc = "Wait"
  /\ WaitReturns(c)
  /\ caller' = [caller EXCEPT ![c].pc = "returned"]
  /\ UNCHANGED <<registryVars, ID, rev, idGenerator, options, channel, closed, childrenChannelMap,
                 selfWorkerWg, worker, receiver, panicked, results, enqueued,
                 calls, listenerCalls, born>>

\* ------------------------------------------------------- MakeChildChannel
\* Channels constructed so far.
Constructed == Cardinality({c \in ChannelIDs : born[c] # "none"})

\* NewChannel with the forwarding options (the next id, a fresh Go channel,
\* the consumer goroutine started), the close listener set, then
\* childrenChannelMap.Set, whose Run panics on sync_map.go's nil lock.
\* Hosts make children of a Channel whose queue is still open.
MakeChild(p, limit) ==
  /\ Running(p)
  /\ Constructed < limit
  /\ ~closed[p]
  /\ LET id == Constructed + 1
     IN  /\ idGenerator' = Add(idGenerator, 1)
         /\ ID' = [ID EXCEPT ![id] = idGenerator']
         /\ options' = [options EXCEPT ![id] = ChildOptions(p)]
         /\ worker' = [worker EXCEPT ![id] = NewWorker(ChannelFile(rev))]
         /\ selfWorkerWg' = [selfWorkerWg EXCEPT ![id] = 1]
         /\ born' = [born EXCEPT ![id] = IF caller[p].pc = "idle" THEN "early"
                                                                  ELSE "late"]
         /\ IF LockIsNil(rev)
            THEN /\ panicked' = "nil pointer dereference"
                 /\ UNCHANGED childrenChannelMap
            ELSE /\ childrenChannelMap' =
                      [childrenChannelMap EXCEPT ![p] = Set(@, ID'[id])]
                 /\ UNCHANGED panicked
  /\ UNCHANGED <<registryVars, rev, channel, closed, caller, receiver, results, enqueued,
                 calls, listenerCalls>>

MakeChildChannel(p) == MakeChild(p, MaxChannels)

MakeChildChannelFanIn(p) == MakeChild(p, MaxFanIn)

\* ------------------------------------------------------- ReceiverWait
\* The receiving side of a tree is the host that owns the root Channel: a
\* child's messages are received by its forwarding closure.
ReceiverWaitCall(c) ==
  /\ Running(c)
  /\ options[c].parent = 0
  /\ receiver.pc = "idle"
  /\ receiver' = [pc |-> "Wait", on |-> c]
  /\ UNCHANGED <<registryVars, ID, rev, idGenerator, options, channel, closed, childrenChannelMap,
                 selfWorkerWg, worker, caller, panicked, results, enqueued,
                 calls, listenerCalls, born>>

\* `x.selfWorkerWg.Wait()` returns in ReceiverWait.
ReceiverWaitDone(c) ==
  /\ Running(c)
  /\ receiver.pc = "Wait"
  /\ receiver.on = c
  /\ WaitReturns(c)
  /\ receiver' = [receiver EXCEPT !.pc = AfterWait(ChannelFile(rev))]
  /\ UNCHANGED <<registryVars, ID, rev, idGenerator, options, channel, closed, childrenChannelMap,
                 selfWorkerWg, worker, caller, panicked, results, enqueued,
                 calls, listenerCalls, born>>

\* ------------------------------------------------------- ChildrenMap, called directly
\* ChildrenMap and its methods are exported: tasks of the host call Set,
\* Remove, Size and ChildrenSlice concurrently on one map, whose key set is
\* kept in childrenChannelMap[1]. A call goes
\* through Run: Lock, the closure, the deferred Unlock. The closure of Set and
\* of Remove reads the map and then writes it, which are two steps of the
\* machine that only the lock keeps together.
RegistryOps == {"Set", "Remove", "Size", "ChildrenSlice"}

\* The id argument of a call: Size and ChildrenSlice take none.
RegistryKeys(op) == IF op \in {"Set", "Remove"} THEN 1..MaxChannels ELSE {0}

\* Everything but the root's map, the panic flag and the direct callers.
channelVars ==
  <<rev, idGenerator, options, channel, closed, selfWorkerWg, worker, caller,
    receiver, results, enqueued, calls, listenerCalls, born, ID>>

\* Direct calls entered so far.
OpsStarted == Len(history) + Cardinality({t \in TaskIDs : task[t].pc # "idle"})

\* (mutant) Lock returns although another task holds the lock.
LockIgnored == TRUE

\* `x.lock.Lock()` returns only while no task holds the lock.
LockFree == lock = 0

\* What Run returns: `return f(ctx, x.channelMap)`; ctx is handed to f and is
\* not looked at by Run, and the closures of Set, Remove, Size and
\* ChildrenSlice return nil.
RunResult(expired, ferr) == ferr

\* A task calls op(ctx, id); d says whether the deadline of ctx has passed
\* (sync_map.go and part_001 take no ctx).
RegistryCall(t) ==
  /\ panicked = "none"
  /\ task[t].pc = "idle"
  /\ OpsStarted < MaxOps
  /\ \E op \in RegistryOps : \E id \in RegistryKeys(op) :
       \E d \in CtxStates(ChannelFile(rev)) :
         task' = [task EXCEPT ![t] = [pc |-> "Lock", op |-> op, id |-> id,
                                      expired |-> d, m |-> {}, size |-> 0]]
  /\ UNCHANGED <<channelVars, childrenChannelMap, panicked, lock, history>>

\* Run: `x.lock.Lock()`; sync_map.go's lock is a nil pointer.
RunLock(t) ==
  /\ panicked = "none"
  /\ task[t].pc = "Lock"
  /\ IF LockIsNil(rev)
     THEN Panic("nil pointer dereference")
     ELSE /\ LockFree
          /\ lock' = t
          /\ task' = [task EXCEPT ![t].pc = "f"]
          /\ UNCHANGED <<channelVars, childrenChannelMap, panicked, history>>

\* The closure reads the map: Size takes len(f), ChildrenSlice ranges over it,
\* Set and Remove find the place of the key.
RunFunc(t) ==
  /\ panicked = "none"
  /\ task[t].pc = "f"
  /\ task' = [task EXCEPT
               ![t].m = childrenChannelMap[1],
               ![t].size = IF task[t].op \in {"Size", "ChildrenSlice"}
                           THEN Cardinality(childrenChannelMap[1]) ELSE 0,
               ![t].pc = IF task[t].op \in {"Set", "Remove"} THEN "write"
                                                             ELSE "Unlock"]
  /\ UNCHANGED <<channelVars, childrenChannelMap, panicked, lock, history>>

\* The closure of Set or Remove writes the map.
RunWrite(t) ==
  /\ panicked = "none"
  /\ task[t].pc = "write"
  /\ childrenChannelMap' =
       [childrenChannelMap EXCEPT
          ![1] = IF task[t].op = "Set" THEN Set(task[t].m, task[t].id)
                                       ELSE Remove(task[t].m, task[t].id)]
  /\ task' = [task EXCEPT ![t].pc = "Unlock"]
  /\ UNCHANGED <<channelVars, panicked, lock, history>>

\* The deferred `x.lock.Unlock()`, and the call returns.
RunUnlock(t) ==
  /\ panicked = "none"
  /\ task[t].pc = "Unlock"
  /\ lock' = 0
  /\ history' = Append(history,
                       [op |-> task[t].op, id |-> task[t].id,
                        expired |-> task[t].expired,
                        err |-> RunResult(task[t].expired, "nil"),
                        before |-> task[t].m,
                        after |-> childrenChannelMap[1],
                        size |-> task[t].size])
  /\ task' = [task EXCEPT ![t] = NoTask]
  /\ UNCHANGED <<channelVars, childrenChannelMap, panicked>>

\* ------------------------------------------------------- specification
WorkerStep(c) ==
  \/ WorkerReceive(c)
  \/ ConsumerRecord(c)
  \/ ConsumerForward(c)
  \/ WorkerDeferred(c)

\* SenderWaitAndClose, statement by statement.
CloseStep(c) ==
  \/ BlockUtilEmpty(c)
  \/ CloseChannel(c)
  \/ SenderWaitReturn(c)

Next ==
  \E c \in ChannelIDs :
    \/ SendCall(c)
    \/ CtxCancel(c)
    \/ SendEnqueue(c)
    \/ SendCanceled(c)
    \/ MakeChildChannel(c)
    \/ ReceiverWaitCall(c)
    \/ ReceiverWaitDone(c)
    \/ CloseStep(c)
    \/ WorkerStep(c)

Spec == Init /\ [][Next]_vars

\* The fan-in phase: a tree of up to MaxFanIn Channels under a root that
\* records what it consumes, with its senders, consumers and forwarding, while
\* no shutdown has started.
InitFanIn ==
  /\ Init
  /\ options[1].ChannelConsumerFunc = "record"

NextFanIn ==
  \E c \in ChannelIDs :
    \/ SendCall(c)
    \/ CtxCancel(c)
    \/ SendEnqueue(c)
    \/ SendCanceled(c)
    \/ MakeChildChannelFanIn(c)
    \/ WorkerReceive(c)
    \/ ConsumerRecord(c)
    \/ ConsumerForward(c)

SpecFanIn == InitFanIn /\ [][NextFanIn]_vars

\* The scenario of one parent and one child: P := NewChannel(...),
\* C := P.MakeChildChannel(), one C.Send that returns nil, and only then
\* SenderWaitAndClose on P and on C, in any interleaving.
ScenarioNext ==
  \/ idGenerator = 1 /\ MakeChildChannel(1)
  \/ results[2] = <<>> /\ (SendCall(2) \/ SendEnqueue(2))
  \/ results[2] = <<"nil">> /\ \E c \in ChannelIDs : CloseStep(c)
  \/ \E c \in ChannelIDs : WorkerStep(c)

SpecScenario == Init /\ [][ScenarioNext]_vars

\* The life of a tree: up to MaxFanIn Channels are made and shut down by
\* SenderWaitAndClose in any order and interleaving, with no message sent.
InitTree ==
  /\ Init
  /\ options[1].ChannelBuffSize = 0

NextTree ==
  \E c \in ChannelIDs :
    \/ MakeChildChannelFanIn(c)
    \/ CloseStep(c)
    \/ WorkerDeferred(c)

SpecTree == InitTree /\ [][NextTree]_vars

\* One ChildrenMap, empty at first, and the tasks that call its methods
\* concurrently; no Channel operation runs.
InitRegistry ==
  /\ Init
  /\ options[1].ChannelConsumerFunc = "nil"
  /\ options[1].ChannelBuffSize = 0

NextRegistry ==
  \E t \in TaskIDs :
    \/ RegistryCall(t)
    \/ RunLock(t)
    \/ RunFunc(t)
    \/ RunWrite(t)
    \/ RunUnlock(t)

SpecRegistry == InitRegistry /\ [][NextRegistry]_vars

\* ======================================================= claims
IsChild(c) == Exists(c) /\ options[c].parent # 0

ChildrenOf(p) == {c \in ChannelIDs : IsChild(c) /\ options[c].parent = p}

\* The messages of a sequence of <<count, message>> invocations.
MessagesOf(invocations) == [k \in 1..Len(invocations) |-> invocations[k][2]]

Occurrences(seq, m) == Cardinality({k \in 1..Len(seq) : seq[k] = m})

\* C1: when a child was registered on entry to P.SenderWaitAndClose, the step
\* that closes P's queue is taken only in a state where P's registry is empty.
C1_CloseOnlyWhenRegistryEmpty ==
  [][\A p \in ChannelIDs :
       (caller[p].atCall.children # {} /\ ~closed[p] /\ closed'[p])
         => childrenChannelMap[p] = {}]_vars

\* C2: with every child made before its parent's SenderWaitAndClose started and
\* no Send on the parent itself, no child's consumer ever stands in its
\* forwarding send into a parent queue that has been closed, and the process
\* never dies of the send on a closed channel.
C2_NoForwardIntoClosedQueue ==
  \A c \in ChannelIDs :
    (/\ IsChild(c)
     /\ \A d \in ChildrenOf(options[c].parent) : born[d] = "early"
     /\ results[options[c].parent] = <<>>
     /\ caller[options[c].parent].pc # "Send")
      => /\ ~(worker[c].pc = "call" /\ closed[options[c].parent])
         /\ panicked # "send on closed channel"

\* C3: in the scenario of one parent P and one child C (C.Send("a") returned,
\* then P.SenderWaitAndClose() and C.SenderWaitAndClose() run concurrently),
\* every run that has come to rest has P's consumer callback invoked with "a",
\* both completions done and both SenderWaitAndClose calls returned.
C3_ScenarioEndsClosed ==
  (/\ options[1].ChannelConsumerFunc = "record"
   /\ results[2] = <<"nil">>
   /\ ~ENABLED ScenarioNext)
    => /\ MessagesOf(calls[1]) = <<Message(2, 1)>>
       /\ selfWorkerWg[1] = 0 /\ selfWorkerWg[2] = 0
       /\ caller[1].pc = "returned" /\ caller[2].pc = "returned"

\* The messages whose Send on c has returned nil.
Accepted(c) == {Message(c, k) : k \in {j \in 1..Len(results[c]) : results[c][j] = "nil"}}

\* C4: for a child C whose SenderWaitAndClose was entered while the parent's
\* queue was open, every run that has come to rest has the parent's consumer
\* callback invoked exactly once for each message sent into C.
C4_ChildMessagesReachParent ==
  \A c \in ChannelIDs :
    (/\ IsChild(c)
     /\ options[options[c].parent].ChannelConsumerFunc # "nil"
     /\ caller[c].pc \notin {"idle", "Send", "BlockUtilEmpty"}
     /\ ~caller[c].atCall.parentClosed
     /\ ~ENABLED Next)
      => \A m \in Accepted(c) :
           Occurrences(MessagesOf(calls[options[c].parent]), m) = 1

\* C5: on a Channel with a consumer callback and no children, the k-th
\* invocation of the callback carries sequence number k and the k-th message
\* sent, so no message is lost, duplicated or reordered.
C5_SequenceNumbersFollowSends ==
  \A c \in ChannelIDs :
    (Exists(c) /\ options[c].ChannelConsumerFunc = "record" /\ ChildrenOf(c) = {})
      => /\ Len(calls[c]) <= Len(enqueued[c])
         /\ \A k \in 1..Len(calls[c]) : calls[c][k] = <<k, enqueued[c][k]>>

\* The messages of seq that were first sent into Channel o, in seq's order.
FromOrigin(seq, o) == SelectSeq(seq, LAMBDA m : m[1] = o)

\* The Send calls that produced the messages of seq are in call order.
InSendOrder(seq) == \A i, j \in 1..Len(seq) : i < j => seq[i][2] < seq[j][2]

\* C6: at every Channel with a consumer callback, the messages sent into one
\* of its children are handed to the callback in the order in which they were
\* sent into that child, whatever the parent's own sends and the other
\* children's forwarding do.
C6_PerChildOrderPreserved ==
  \A p \in ChannelIDs : \A o \in ChildrenOf(p) :
    options[p].ChannelConsumerFunc # "nil"
      => /\ InSendOrder(FromOrigin(MessagesOf(calls[p]), o))
         /\ InSendOrder(FromOrigin(enqueued[p], o))

\* Two children of the root; the root's callback got the first message of
\* child 2, then one of child 3, then the second of child 2.
C6_Witness ==
  /\ options[2].parent = 1 /\ options[3].parent = 1
  /\ MessagesOf(calls[1]) = <<Message(2, 1), Message(3, 1), Message(2, 2)>>

\* C7: when ReceiverWait was called on a Channel without children whose
\* sender has finished SenderWaitAndClose, a run that has come to rest has
\* ReceiverWait returned.
C7_ReceiverWaitReturns ==
  (/\ receiver.pc # "idle"
   /\ ChildrenOf(receiver.on) = {}
   /\ caller[receiver.on].pc = "returned"
   /\ ~ENABLED Next)
    => receiver.pc = "returned"

\* SenderWaitAndClose on c has returned, or ReceiverWait on c has seen the
\* completion done.
CompletionObserved(c) ==
  \/ caller[c].pc = "returned"
  \/ receiver.on = c /\ receiver.pc \in {"select", "returned"}

\* C8 (as claimed): once completion was observed on a Channel with a
\* close-listener, the close-listener has been invoked.
C8_CompletionImpliesListenerFired ==
  \A c \in ChannelIDs :
    (Exists(c) /\ options[c].CloseEventListener # "nil" /\ CompletionObserved(c))
      => listenerCalls[c] >= 1

\* C8 (amended): the close-listener is invoked only after completion is done;
\* once completion was observed, completion is done and the close-listener has
\* been invoked once or is the next statement of the consumer's deferred
\* function.
C8_ListenerFiresAfterCompletion ==
  \A c \in ChannelIDs :
    (Exists(c) /\ options[c].CloseEventListener # "nil")
      => /\ listenerCalls[c] >= 1 => selfWorkerWg[c] = 0
         /\ CompletionObserved(c)
              => /\ selfWorkerWg[c] = 0
                 /\ \/ listenerCalls[c] = 1
                    \/ listenerCalls[c] = 0 /\ worker[c].pc = "deferred"

\* SenderWaitAndClose has returned on a Channel whose close-listener has not
\* been invoked yet.
C8_Witness ==
  \E c \in ChannelIDs :
    /\ Exists(c) /\ options[c].CloseEventListener # "nil"
    /\ caller[c].pc = "returned"
    /\ listenerCalls[c] = 0

\* C9: once SenderWaitAndClose on a Channel has returned, its queue is closed
\* and empty, the consumer is out of its loop, and the consumer callback has
\* completed for every message whose Send on that Channel returned nil.
C9_ReturnedMeansDrained ==
  \A c \in ChannelIDs :
    caller[c].pc = "returned"
      => /\ closed[c]
         /\ channel[c] = <<>>
         /\ worker[c].pc \in {"deferred", "exited"}
         /\ options[c].ChannelConsumerFunc # "nil"
              => \A m \in Accepted(c) : Occurrences(MessagesOf(calls[c]), m) >= 1

\* C10: every Send call that has ended either returned nil with its message
\* put into the queue exactly once, or returned the cancellation error with
\* its message never put into the queue; a Send still waiting has put nothing.
C10_SendOutcomes ==
  \A c \in ChannelIDs :
    /\ \A k \in 1..Len(results[c]) :
         \/ results[c][k] = "nil" /\ Occurrences(enqueued[c], Message(c, k)) = 1
         \/ results[c][k] = "Canceled" /\ Occurrences(enqueued[c], Message(c, k)) = 0
    /\ caller[c].pc = "Send"
         => Occurrences(enqueued[c], Message(c, Len(results[c]) + 1)) = 0

\* One caller has had a Send cancelled and a later Send accepted.
C10_Witness ==
  \E c \in ChannelIDs :
    /\ Len(results[c]) >= 2
    /\ results[c][1] = "Canceled" /\ results[c][2] = "nil"
    /\ Occurrences(enqueued[c], Message(c, 2)) = 1

\* C11: a Send called with a ctx that is already done ends with the
\* cancellation error and with nothing put into the queue, whether or not the
\* queue has room.
C11_CanceledBeforeCallNeverEnqueues ==
  [][\A c \in ChannelIDs :
       (/\ caller[c].pc = "Send"
        /\ caller[c].doneAtCall
        /\ Len(results'[c]) > Len(results[c]))
         => /\ results'[c][Len(results'[c])] = "Canceled"
            /\ enqueued'[c] = enqueued[c]]_vars

\* C12: a BlockUtilEmpty call whose callback reported no failure returns (the
\* caller goes on to close the queue) only from an observation that found the
\* mapping empty; an observation of a non-empty mapping is followed by sleeping
\* and observing again.
C12_ReturnsOnlyOnEmptyObservation ==
  [][\A c \in ChannelIDs :
       (/\ caller[c].pc \in {"idle", "BlockUtilEmpty"}
        /\ caller'[c].pc \in {"close", "BlockUtilEmpty"}
        /\ caller'[c].pc # caller[c].pc
        /\ caller'[c].err = "nil")
         => IF childrenChannelMap[c] = {}
            THEN caller'[c].pc = "close"
            ELSE caller'[c].pc = "BlockUtilEmpty"]_vars

\* C13: a direct ChildrenMap call made with a ctx whose deadline has passed
\* returns a timeout error and leaves the map as it found it, and the lock is
\* free whenever no call is in progress.
C13_ExpiredCallFailsAndChangesNothing ==
  /\ \A k \in 1..Len(history) :
       history[k].expired
         => /\ history[k].err = "DeadlineExceeded"
            /\ history[k].after = history[k].before
  /\ (\A t \in TaskIDs : task[t].pc = "idle") => lock = 0

\* The map after the calls of h, executed one at a time in h's order.
RECURSIVE Replay(_)
Replay(h) ==
  IF h = <<>> THEN {}
  ELSE LET r == h[Len(h)]
           m == Replay(SubSeq(h, 1, Len(h) - 1))
       IN  IF r.op = "Set" THEN m \cup {r.id}
           ELSE IF r.op = "Remove" THEN m \ {r.id}
           ELSE m

\* C18: concurrent Set, Remove and Size calls on one ChildrenMap behave as if
\* executed one at a time in the order in which they left the lock: every call
\* saw the map its predecessors left and left the map its own update gives,
\* every Size returned the size of the map at its place in that order, and
\* whenever no call holds the lock the map is what the finished calls give in
\* that order (so at the end its size is the number of ids set and not
\* removed afterwards).
C18_RegistryCallsSerialized ==
  /\ \A k \in 1..Len(history) :
       LET r == history[k]
           pre == Replay(SubSeq(history, 1, k - 1))
       IN  /\ r.before = pre
           /\ r.after = Replay(SubSeq(history, 1, k))
           /\ r.op \in {"Size", "ChildrenSlice"} => r.size = Cardinality(pre)
  /\ lock = 0 => childrenChannelMap[1] = Replay(history)

\* Three calls have finished: a Set, a Remove of another id and a Size that
\* returned 1.
C18_Witness ==
  /\ Len(history) = 3
  /\ history[1].op = "Set" /\ history[2].op = "Remove" /\ history[3].op = "Size"
  /\ history[1].id # history[2].id
  /\ history[3].size = 1
  /\ childrenChannelMap[1] = {history[1].id}

\* MakeChildChannel has returned c (on sync_map.go's nil lock it panics).
Made(c) ==
  /\ born[c] \notin {"none", "root"}
  /\ panicked # "nil pointer dereference"

\* C14: a child that MakeChildChannel returned is in its parent's registry
\* under its ID until its close-listener runs and is in no other registry; the
\* step in which its close-listener runs removes its ID from the parent's
\* registry and changes no other entry of any registry.
C14_RegisteredUntilListener ==
  /\ [](\A c \in ChannelIDs :
          Made(c) =>
            /\ listenerCalls[c] = 0 => ID[c] \in childrenChannelMap[options[c].parent]
            /\ \A q \in ChannelIDs :
                 q # options[c].parent => ID[c] \notin childrenChannelMap[q])
  /\ [][\A c \in ChannelIDs :
           (Made(c) /\ listenerCalls'[c] > listenerCalls[c])
             => childrenChannelMap' =
                  [childrenChannelMap EXCEPT
                     ![options[c].parent] = @ \ {ID[c]}]]_vars

\* Two children of one parent: the close-listener of one has run and removed
\* it, the other is still registered.
C14_Witness ==
  \E c, d \in ChannelIDs :
    /\ c # d /\ Made(c) /\ Made(d)
    /\ options[c].parent = options[d].parent
    /\ listenerCalls[c] = 1
    /\ childrenChannelMap[options[c].parent] = {ID[d]}

\* Running (queue open), Draining (queue closed, completion pending) or
\* Closed (completion done).
Phase(c) ==
  IF selfWorkerWg[c] = 0 THEN 3 ELSE IF closed[c] THEN 2 ELSE 1

\* C15: a Channel's lifecycle only moves forward: its queue never reopens and
\* its completion never goes back to pending; completion is done only when the
\* queue is closed and empty and no callback is in progress; the close-listener
\* is invoked at most once, only after completion is done, exactly once when
\* the consumer has exited, and no consumer callback is invoked after it.
C15_LifecycleOnlyForward ==
  /\ [](\A c \in ChannelIDs :
          born[c] # "none" =>
            /\ selfWorkerWg[c] \in {0, 1}
            /\ selfWorkerWg[c] = 0
                 => /\ closed[c] /\ channel[c] = <<>>
                    /\ worker[c].pc \in {"deferred", "exited"}
                    /\ worker[c].message = NoMessage
            /\ listenerCalls[c] <= 1
            /\ listenerCalls[c] = 1 => selfWorkerWg[c] = 0
            /\ (worker[c].pc = "exited" /\ options[c].CloseEventListener # "nil")
                 => listenerCalls[c] = 1)
  /\ [][\A c \in ChannelIDs :
           born[c] # "none" =>
             /\ Phase(c)' >= Phase(c)
             /\ closed[c] => closed'[c]
             /\ listenerCalls'[c] >= listenerCalls[c]
             /\ listenerCalls[c] = 1 => calls'[c] = calls[c]]_vars

\* C16: any two constructed Channels have different IDs, the ID of a Channel
\* never changes once it is constructed, and a Channel under construction gets
\* an ID that is none of those handed out before.
C16_IDsUniqueAndStable ==
  /\ [](\A c, d \in ChannelIDs :
          (born[c] # "none" /\ born[d] # "none" /\ c # d) => ID[c] # ID[d])
  /\ [][\A c \in ChannelIDs :
           /\ born[c] # "none" => ID'[c] = ID[c]
           /\ (born[c] = "none" /\ born'[c] # "none")
                => ID'[c] \notin 1..idGenerator]_vars

\* Three Channels have been constructed, the third as a child of the second.
C16_Witness ==
  /\ Constructed = 3
  /\ options[3].parent = 2
  /\ ID[1] = 1 /\ ID[2] = 2 /\ ID[3] = 3

\* Messages the consumer of c has received from its queue so far.
Taken(c) == Len(enqueued[c]) - Len(channel[c])

\* C17: a queue never holds more messages than its ChannelBuffSize; a Send
\* that finds the queue full completes only in a step in which the consumer
\* takes its message or after the consumer has taken one; with capacity 1 a
\* Send that finds the open queue empty can complete at once; and with
\* capacity 1 on a Channel without children, when a second Send has completed
\* the first message has been taken.
C17_QueueBoundedBySize ==
  /\ [](\A c \in ChannelIDs :
          /\ Len(channel[c]) <= options[c].ChannelBuffSize
          /\ (/\ Running(c) /\ caller[c].pc = "Send" /\ ~closed[c]
              /\ options[c].ChannelBuffSize = 1 /\ channel[c] = <<>>)
               => ENABLED SendEnqueue(c)
          /\ (options[c].ChannelBuffSize = 1 /\ ChildrenOf(c) = {}
               /\ Cardinality(Accepted(c)) >= 2)
                => Taken(c) >= 1)
  /\ [][\A c \in ChannelIDs :
           (/\ caller[c].pc = "Send"
            /\ Len(channel[c]) = options[c].ChannelBuffSize
            /\ Len(results'[c]) > Len(results[c])
            /\ results'[c][Len(results'[c])] = "nil")
             => /\ Taken(c)' = Taken(c) + 1
                /\ channel'[c] = channel[c]]_vars

\* On a Channel of capacity 1 a second Send has completed while the consumer
\* was still in the callback for the first message, and waits in the queue.
C17_Witness ==
  \E c \in ChannelIDs :
    /\ options[c].ChannelBuffSize = 1
    /\ ChildrenOf(c) = {}
    /\ Cardinality(Accepted(c)) = 2
    /\ worker[c].pc = "call" /\ worker[c].message = Message(c, 1)
    /\ channel[c] = <<Message(c, 2)>>

\* C19: in every state in which a child that MakeChildChannel returned is
\* absent from its parent's registry, the child's queue is closed and empty,
\* its completion is done, its consumer holds no message, and every message
\* that entered the child's queue has been put into the parent's queue.
C19_RemovedOnlyWhenFullyForwarded ==
  \A c \in ChannelIDs :
    (Made(c) /\ ID[c] \notin childrenChannelMap[options[c].parent])
      => /\ closed[c] /\ channel[c] = <<>>
         /\ selfWorkerWg[c] = 0
         /\ worker[c].message = NoMessage
         /\ \A k \in 1..Len(enqueued[c]) :
              Occurrences(enqueued[options[c].parent], enqueued[c][k]) = 1

\* C20: for a Channel P whose registry was empty when P.SenderWaitAndClose
\* was entered (so its observation of an empty registry was right), no state
\* has P's queue closed and a child in P's registry: MakeChildChannel calls
\* that run concurrently with the close sequence do not register a child
\* between the observation and the close.
C20_NoChildRegisteredAtClose ==
  \A p \in ChannelIDs :
    (/\ closed[p]
     /\ caller[p].atCall.children = {})
      => childrenChannelMap[p] = {}

====
